---- MODULE Spec2Model ----
(***************************************************************************)
(* Connection state machine of the Ottr client.                            *)
(*                                                                         *)
(* The backing store holds the tables `users` and `connection_requests`.   *)
(* connectionService.ts issues every statement of an operation as its own  *)
(* awaited request to the store (supabase.from(...)... / supabase.rpc(...)),*)
(* so one statement is one step of the model and statements of operations  *)
(* running in different callbacks or on different devices interleave.      *)
(* The rpc calls begin_transaction / commit_transaction /                  *)
(* rollback_transaction are requests of their own: they can fail, and they *)
(* do not tie the statements in between into one unit of the store.        *)
(* Since an rpc call neither reads nor writes a row, begin_transaction is   *)
(* taken together with the first statement of the operation and            *)
(* rollback_transaction together with the return of the failure.           *)
(* Row-level policies are taken to admit every statement the service       *)
(* issues.                                                                 *)
(*                                                                         *)
(* The message store of one client (useMessageStore) is modelled with its  *)
(* window, its AsyncStorage cache, the offline queue in localStorage and   *)
(* the NetInfo listener.  A callback runs up to its next awaited request   *)
(* in one step; localStorage is taken to be a working key-value store.     *)
(***************************************************************************)
EXTENDS Integers, Sequences, FiniteSets, TLC

VARIABLES
  users,     \* table users: id -> row
  requests,  \* table connection_requests
  msgs,      \* table messages, oldest row first
  procs,     \* the operations in flight
  ret,       \* the result an operation has just returned
  faults,    \* failed requests to the store so far
  tried,     \* the sendConnectionRequest arguments of this behaviour
  singleFlight, \* the controls that start an operation are disabled while
             \* one is in flight
  messages,  \* message store of Me's client: the in-memory window
  cache,     \* AsyncStorage of Me's client: messages-${Me}-${partner}
  isOnline,  \* message store of Me's client: isOnline, as NetInfo reported
  queue,     \* localStorage of Me's client: ottr_offline_message_queue
  clock,     \* Date.now() on Me's client
  sentLocal, \* history: the entries sendMessage left for confirmed sends
  pushes,    \* payloads handed to the send_notification function
  delivered, \* history: the queue entries processOfflineQueue has sent
  paging,    \* message store of Me's client: currentPage, hasMoreMessages,
             \* isLoadingMessages, isLoadingMore
  session,   \* connection store of Me's client: connectionStatus,
             \* connectedUser, and whether its realtime subscription is set up
  events,    \* UPDATE events of Me's users row the subscription has not
             \* handled yet, oldest first
  typing     \* message store of Me's client: isTyping, typingTimeout (a
             \* timer handle is stored), and whether that timer is still
             \* going to fire

\* the state that only the message store's operations change
chatVars == <<isOnline, queue, clock, sentLocal, pushes, delivered>>

\* the connection store with its subscription, and the typing state of the
\* message store
clientVars == <<session, events, typing>>

vars ==
  <<users, requests, msgs, procs, ret, faults, tried, singleFlight, messages,
    cache, chatVars, paging, clientVars>>

\* ------------------------------------------------------------------------
\* Domains

Users == {"u1", "u2", "u3"}

\* null in connected_to; '' as a user id
NoUser == "none"

\* concurrently running operations (callbacks of one client, or clients)
Procs == {"p1", "p2"}

\* (fromUserId, toUserId) arguments of sendConnectionRequest
SendPairs == {<<"u1", "u2">>, <<"u2", "u1">>, <<"u3", "u2">>}

\* the arguments tried in one behaviour: two users requesting each other, or
\* two users requesting the same third user
Scenarios ==
  {{<<"u1", "u2">>, <<"u2", "u1">>}, {<<"u1", "u2">>, <<"u3", "u2">>}}

\* failed requests to the store in one behaviour
MaxFaults == 1

\* rows the messages table may hold
MaxMessages == 2

\* entries of the in-memory window at which no further page is appended
MaxWindow == 3

\* the user signed in on the client whose message store is modelled
Me == "u1"

\* messagesPerPage
messagesPerPage == 20

\* combined.slice(-200): messages kept in memory
WindowLimit == 200

\* trimmed.slice(-100): messages cached for quick restore
CacheLimit == 100

DISCONNECTED == "disconnected"
PENDING == "pending"
CONNECTED == "connected"
ACCEPTED == "accepted"
REJECTED == "rejected"

UserRow(status, peer) == [connection_status |-> status, connected_to |-> peer]

\* connection_requests: UNIQUE (from_user, to_user) makes the pair a key of
\* the table, so a row is named by its pair and the table maps the pair to the
\* row's status; NoRow where the table holds no row for the pair
NoRow == "none"

NoRequest == <<NoUser, NoUser>>

from_user(rid) == rid[1]

to_user(rid) == rid[2]

RequestIds == {rid \in SendPairs : requests[rid] # NoRow}

\* ------------------------------------------------------------------------
\* One running operation: the function, the statement it is about to issue,
\* its arguments and locals.  Four fields record facts about the call for the
\* properties below: solo (no other call ran while it did), pre (the
\* operation's precondition held when it was called), changed (it changed a
\* row) and prev (the status its update of the request row replaced).

Idle ==
  [op |-> "none", pc |-> "idle", caller |-> NoUser, from |-> NoUser,
   to |-> NoUser, rid |-> NoRequest, err |-> "none", solo |-> FALSE,
   pre |-> FALSE, changed |-> FALSE, prev |-> "none", refresh |-> FALSE,
   data |-> <<>>, content |-> <<0, 0, 0>>, tempId |-> <<"none", 0>>,
   sid |-> <<"none", 0>>, calls |-> 0, idx |-> 0, sent |-> <<>>,
   online |-> FALSE, w0 |-> <<>>, q0 |-> <<>>, m0 |-> 0,
   retryOf |-> <<"none", 0>>, page |-> 0, overtaken |-> "no", rls |-> FALSE]

NoRet == Idle

Running(p) == procs[p].pc # "idle"

Quiescent == \A p \in Procs : ~Running(p)

\* callbacks of the connection store's subscription and its refresh: they
\* run whenever an event arrives or a screen mounts
Background == {"event", "refresh"}

\* slot p starts running rec; every other running call is no longer alone
Start(p, rec) ==
  /\ ~Running(p)
  /\ procs' = [q \in Procs |->
       IF q = p THEN [rec EXCEPT !.solo = \A r \in Procs \ {p} : ~Running(r)]
       ELSE IF Running(q)
       THEN [procs[q] EXCEPT !.solo = FALSE,
                             !.overtaken =
                               IF rec.op = "load" /\ rec.refresh /\ @ = "no"
                               THEN "started" ELSE @]
       ELSE procs[q]]
  /\ ret' = NoRet

\* an operation is called in slot p
Call(p, rec) ==
  /\ singleFlight => \A q \in Procs : Running(q) => procs[q].op \in Background
  /\ Start(p, rec)

Goto(p, pc) ==
  /\ procs' = [procs EXCEPT ![p].pc = pc]
  /\ ret' = NoRet

\* the operation's promise resolves with {success, error}
Return(p, res) ==
  /\ procs' = [procs EXCEPT ![p] = Idle]
  /\ ret' = [procs[p] EXCEPT !.pc = "returned", !.err = res]

\* throw new Error(...) inside try: the catch block issues
\* rollback_transaction and returns { success: false, error }
Throw(p, e) == Return(p, e)

StorePcs ==
  {"readUsers", "checkExisting", "insert", "updFrom", "updTo",
   "readReq", "updReq", "readUser", "updUser", "updPeer", "commit", "fetch"}

\* ------------------------------------------------------------------------
\* Initial state: every profile exists and is disconnected, no requests

\* the connection store after getConnectedUser has read the row of a
\* disconnected user; setupRealtimeSubscription has not been called
InitSession ==
  [connectionStatus |-> DISCONNECTED, connectedUser |-> NoUser,
   subscribed |-> FALSE]

\* isTyping: false, typingTimeout: null
InitTyping == [isTyping |-> FALSE, typingTimeout |-> FALSE, armed |-> FALSE]

\* hasMoreMessages: true, isLoadingMessages: false, isLoadingMore: false,
\* currentPage: 0
InitPaging ==
  [currentPage |-> 0, hasMoreMessages |-> TRUE, isLoadingMessages |-> FALSE,
   isLoadingMore |-> FALSE]

InitRows ==
  /\ users = [u \in Users |-> UserRow(DISCONNECTED, NoUser)]
  /\ requests = [rid \in SendPairs |-> NoRow]
  /\ procs = [p \in Procs |-> Idle]
  /\ ret = NoRet
  /\ faults = 0
  /\ tried \in Scenarios
  /\ msgs = <<>>
  /\ messages = <<>>
  /\ cache = [u \in Users |-> <<>>]
  /\ isOnline = TRUE
  /\ queue = <<>>
  /\ clock = 1
  /\ sentLocal = <<>>
  /\ pushes = {}
  /\ delivered = <<>>
  /\ paging = InitPaging
  /\ events = <<>>
  /\ typing = InitTyping

InitStore == InitRows /\ session = InitSession

\* SearchScreen has called setupRealtimeSubscription(user.id)
InitEvents ==
  /\ InitRows
  /\ session = [InitSession EXCEPT !.subscribed = TRUE]
  /\ singleFlight = TRUE

Init == InitStore /\ singleFlight = TRUE

InitConcurrent == InitStore /\ singleFlight = FALSE

\* ------------------------------------------------------------------------
\* A request to the store fails (network, server): the awaited call yields
\* {error}, the service throws and the statement is not applied.

StoreError(p) ==
  /\ procs[p].pc \in StorePcs
  /\ faults < MaxFaults
  /\ faults' = faults + 1
  /\ Throw(p, "StoreError")
  /\ UNCHANGED <<users, requests, tried, singleFlight, clientVars, chatVars, paging, msgs, messages, cache>>

\* await supabase.rpc('commit_transaction'); return { success: true }
Commit(p, op) ==
  /\ procs[p].op = op
  /\ procs[p].pc = "commit"
  /\ Return(p, "ok")
  /\ UNCHANGED <<users, requests, faults, tried, singleFlight, events, chatVars, msgs>>

\* .from('users').update(row).eq('id', u)
UpdateUser(p, u, row, next) ==
  /\ users' = IF u \in Users THEN [users EXCEPT ![u] = row] ELSE users
  /\ procs' = [procs EXCEPT ![p].pc = next,
                            ![p].changed = procs[p].changed \/ users' # users]
  /\ ret' = NoRet
  /\ events' = IF u = Me /\ session.subscribed THEN Append(events, row)
               ELSE events
  /\ UNCHANGED <<requests, faults, tried, singleFlight, session, typing,
                 chatVars, paging, msgs, messages, cache>>

\* .from('users').update({connection_status}).eq('id', u)
UpdateUserStatus(p, u, status, next) ==
  UpdateUser(p, u,
             IF u \in Users THEN [users[u] EXCEPT !.connection_status = status]
             ELSE UserRow(status, NoUser),
             next)

\* .from('connection_requests').update({status}).eq('id', requestId)
UpdateRequestStatus(p, status, next) ==
  LET rid == procs[p].rid IN
  /\ requests' = IF rid \in RequestIds
                 THEN [requests EXCEPT ![rid] = status]
                 ELSE requests
  /\ procs' = [procs EXCEPT
       ![p].pc = next,
       ![p].changed = procs[p].changed \/ requests' # requests,
       ![p].prev = IF rid \in RequestIds THEN requests[rid] ELSE NoRow]
  /\ ret' = NoRet
  /\ UNCHANGED <<users, faults, tried, singleFlight, clientVars, chatVars, paging, msgs, messages, cache>>

\* ------------------------------------------------------------------------
\* sendConnectionRequest(fromUserId, toUserId)

BothDisconnected(f, t) ==
  /\ f \in Users
  /\ t \in Users
  /\ f # t
  /\ users[f].connection_status = DISCONNECTED
  /\ users[t].connection_status = DISCONNECTED

sendConnectionRequest(p, f, t) ==
  /\ <<f, t>> \in tried
  /\ Call(p, [Idle EXCEPT !.op = "send", !.pc = "readUsers", !.caller = f,
                          !.from = f, !.to = t,
                          !.pre = BothDisconnected(f, t)])
  /\ UNCHANGED <<users, requests, faults, tried, singleFlight, clientVars, chatVars, paging, msgs, messages, cache>>

\* useConnectionStore on the client of me: connectedUser, which
\* getConnectedUser and the subscription on the user's row set to the peer
\* while the user's row is connected and to null otherwise
connectedUser(me) ==
  IF me = Me /\ session.subscribed THEN session.connectedUser
  ELSE IF users[me].connection_status = CONNECTED THEN users[me].connected_to
  ELSE NoUser

\* useConnectionStore.sendRequest(toUserId) on the client of the signed-in
\* user me (SearchScreen.handleConnect): sendConnectionRequest(
\* get().connectedUser?.id || '', toUserId)
sendRequest(p, me, toUserId) ==
  LET fromUserId == connectedUser(me) IN
  /\ toUserId # me
  /\ fromUserId \in Users => <<fromUserId, toUserId>> \in tried
  /\ Call(p, [Idle EXCEPT !.op = "send", !.pc = "readUsers", !.caller = me,
                          !.from = fromUserId, !.to = toUserId,
                          !.pre = BothDisconnected(me, toUserId)])
  /\ UNCHANGED <<users, requests, faults, tried, singleFlight, clientVars, chatVars, paging, msgs,
                 messages, cache>>

\* 1. Validate both users are disconnected
Send_readUsers(p) ==
  LET f == procs[p].from
      t == procs[p].to
      rows == {u \in Users : u \in {f, t}}
  IN
  /\ procs[p].op = "send"
  /\ procs[p].pc = "readUsers"
  /\ IF Cardinality(rows) # 2
     THEN Throw(p, "UserNotFound")
     ELSE IF users[f].connection_status # DISCONNECTED
     THEN Throw(p, "InvalidState")
     ELSE IF users[t].connection_status # DISCONNECTED
     THEN Throw(p, "InvalidState")
     ELSE Goto(p, "checkExisting")
  /\ UNCHANGED <<users, requests, faults, tried, singleFlight, clientVars, chatVars, paging, msgs, messages, cache>>

\* .or(from_user.eq.F,from_user.eq.T).or(to_user.eq.T,to_user.eq.F)
\* .eq('status', 'pending')
ExistingRequests(f, t) ==
  {rid \in RequestIds :
     /\ from_user(rid) \in {f, t}
     /\ to_user(rid) \in {t, f}
     /\ requests[rid] = PENDING}

\* 2. Check if a request already exists between these users
Send_checkExisting(p) ==
  /\ procs[p].op = "send"
  /\ procs[p].pc = "checkExisting"
  /\ IF ExistingRequests(procs[p].from, procs[p].to) # {}
     THEN Throw(p, "DuplicateRequest")
     ELSE Goto(p, "insert")
  /\ UNCHANGED <<users, requests, faults, tried, singleFlight, clientVars, chatVars, paging, msgs, messages, cache>>

\* CONSTRAINT unique_connection_request UNIQUE (from_user, to_user)
\* CONSTRAINT no_self_connection CHECK (from_user != to_user)
InsertAllowed(f, t) ==
  /\ f # t
  /\ \A rid \in RequestIds : ~(from_user(rid) = f /\ to_user(rid) = t)

\* 3. Create the connection request
Send_insert(p) ==
  /\ procs[p].op = "send"
  /\ procs[p].pc = "insert"
  /\ IF InsertAllowed(procs[p].from, procs[p].to)
     THEN /\ requests' =
               [requests EXCEPT ![<<procs[p].from, procs[p].to>>] = PENDING]
          /\ procs' = [procs EXCEPT ![p].pc = "updFrom",
                                    ![p].rid = <<procs[p].from, procs[p].to>>,
                                    ![p].changed = TRUE]
          /\ ret' = NoRet
     ELSE /\ Throw(p, "ConstraintViolation")
          /\ UNCHANGED requests
  /\ UNCHANGED <<users, faults, tried, singleFlight, clientVars, chatVars, paging, msgs, messages, cache>>

\* 4. Update both users' connection status to pending
Send_updFrom(p) ==
  /\ procs[p].op = "send"
  /\ procs[p].pc = "updFrom"
  /\ UpdateUserStatus(p, procs[p].from, PENDING, "updTo")

Send_updTo(p) ==
  /\ procs[p].op = "send"
  /\ procs[p].pc = "updTo"
  /\ UpdateUserStatus(p, procs[p].to, PENDING, "commit")

\* the service returns { success: true }; useConnectionStore.sendRequest then
\* does set({ connectionStatus: CONNECTION_STATES.PENDING })
Send_commit(p) ==
  /\ Commit(p, "send")
  /\ session' = IF procs[p].caller = Me /\ procs[p].from # Me
                THEN [session EXCEPT !.connectionStatus = PENDING]
                ELSE session
  /\ UNCHANGED <<messages, cache, paging, typing>>

\* ------------------------------------------------------------------------
\* acceptConnectionRequest(requestId)

AcceptSelect_anyStatus(rid) == rid \in RequestIds

\* .select('*').eq('id', requestId).eq('status', 'pending').single()
AcceptSelect(rid) == rid \in RequestIds /\ requests[rid] = PENDING

acceptConnectionRequest(p, caller, rid) ==
  /\ rid \in RequestIds
  /\ caller = to_user(rid)
  /\ Call(p, [Idle EXCEPT !.op = "accept", !.pc = "readReq", !.caller = caller,
                          !.rid = rid,
                          !.pre = requests[rid] = PENDING])
  /\ UNCHANGED <<users, requests, faults, tried, singleFlight, clientVars, chatVars, paging, msgs, messages, cache>>

\* acceptConnectionRequest(requestId) called by any signed-in user, with the
\* row level security policies of migration 004 in force (rls) or not: the
\* function does not look at the caller
acceptConnectionRequest_as(p, caller, rid, rls) ==
  /\ rid \in RequestIds
  /\ Call(p, [Idle EXCEPT !.op = "accept", !.pc = "readReq", !.caller = caller,
                          !.rid = rid, !.rls = rls,
                          !.pre = requests[rid] = PENDING])
  /\ UNCHANGED <<users, requests, faults, tried, singleFlight, clientVars, chatVars, paging, msgs, messages, cache>>

\* connection_requests_read_own: USING (auth.uid() = from_user OR
\* auth.uid() = to_user)
CanReadRequest(p) ==
  procs[p].rls => procs[p].caller \in {from_user(procs[p].rid),
                                       to_user(procs[p].rid)}

\* connection_requests_update_received: USING (auth.uid() = to_user); a row
\* the policy hides is not updated and no error is returned
CanUpdateRequest(p) == procs[p].rls => procs[p].caller = to_user(procs[p].rid)

\* users_update_own: USING (auth.uid() = id)
CanUpdateUser(p, u) == procs[p].rls => procs[p].caller = u

\* 1. Get the request details
Accept_readReq(p) ==
  LET rid == procs[p].rid IN
  /\ procs[p].op = "accept"
  /\ procs[p].pc = "readReq"
  /\ IF AcceptSelect(rid) /\ CanReadRequest(p)
     THEN /\ procs' = [procs EXCEPT ![p].pc = "updReq",
                                    ![p].from = from_user(rid),
                                    ![p].to = to_user(rid)]
          /\ ret' = NoRet
     ELSE Throw(p, "RequestNotFound")
  /\ UNCHANGED <<users, requests, faults, tried, singleFlight, clientVars, chatVars, paging, msgs, messages, cache>>

\* 2. Update the request status
Accept_updReq(p) ==
  /\ procs[p].op = "accept"
  /\ procs[p].pc = "updReq"
  /\ IF CanUpdateRequest(p)
     THEN UpdateRequestStatus(p, ACCEPTED, "updFrom")
     ELSE /\ Goto(p, "updFrom")
          /\ UNCHANGED <<users, requests, faults, tried, singleFlight,
                         clientVars, chatVars, paging, msgs, messages, cache>>

\* 3. Update both users to connected status and set connected_to
Accept_updFrom(p) ==
  /\ procs[p].op = "accept"
  /\ procs[p].pc = "updFrom"
  /\ UpdateUser(p, IF CanUpdateUser(p, procs[p].from) THEN procs[p].from
                   ELSE NoUser,
                UserRow(CONNECTED, procs[p].to), "updTo")

Accept_updTo(p) ==
  /\ procs[p].op = "accept"
  /\ procs[p].pc = "updTo"
  /\ UpdateUser(p, IF CanUpdateUser(p, procs[p].to) THEN procs[p].to
                   ELSE NoUser,
                UserRow(CONNECTED, procs[p].from), "commit")

\* useConnectionStore.acceptRequest returns true and sets neither
\* connectionStatus nor connectedUser
Accept_commit(p) ==
  Commit(p, "accept") /\ UNCHANGED <<messages, cache, paging, session, typing>>

\* ------------------------------------------------------------------------
\* rejectConnectionRequest(requestId)

\* .select('*').eq('id', requestId).eq('status', 'pending').single()
RejectSelect(rid) == rid \in RequestIds /\ requests[rid] = PENDING

rejectConnectionRequest(p, caller, rid) ==
  /\ rid \in RequestIds
  /\ caller \in {from_user(rid), to_user(rid)}
  /\ Call(p, [Idle EXCEPT !.op = "reject", !.pc = "readReq", !.caller = caller,
                          !.rid = rid,
                          !.pre = requests[rid] = PENDING])
  /\ UNCHANGED <<users, requests, faults, tried, singleFlight, clientVars, chatVars, paging, msgs, messages, cache>>

\* 1. Get the request details
Reject_readReq(p) ==
  LET rid == procs[p].rid IN
  /\ procs[p].op = "reject"
  /\ procs[p].pc = "readReq"
  /\ IF RejectSelect(rid)
     THEN /\ procs' = [procs EXCEPT ![p].pc = "updReq",
                                    ![p].from = from_user(rid),
                                    ![p].to = to_user(rid)]
          /\ ret' = NoRet
     ELSE Throw(p, "RequestNotFound")
  /\ UNCHANGED <<users, requests, faults, tried, singleFlight, clientVars, chatVars, paging, msgs, messages, cache>>

\* 2. Update the request status
Reject_updReq(p) ==
  /\ procs[p].op = "reject"
  /\ procs[p].pc = "updReq"
  /\ UpdateRequestStatus(p, REJECTED, "updFrom")

\* 3. Update both users back to disconnected status
Reject_updFrom(p) ==
  /\ procs[p].op = "reject"
  /\ procs[p].pc = "updFrom"
  /\ UpdateUser(p, procs[p].from, UserRow(DISCONNECTED, NoUser), "updTo")

Reject_updTo_skipped(p) ==
  /\ procs[p].op = "reject"
  /\ procs[p].pc = "updTo"
  /\ Goto(p, "commit")
  /\ UNCHANGED <<users, requests, faults, tried, singleFlight, clientVars, chatVars, paging, msgs, messages, cache>>

Reject_updTo(p) ==
  /\ procs[p].op = "reject"
  /\ procs[p].pc = "updTo"
  /\ UpdateUser(p, procs[p].to, UserRow(DISCONNECTED, NoUser), "commit")

\* useConnectionStore.rejectRequest returns true and sets neither
\* connectionStatus nor connectedUser
Reject_commit(p) ==
  Commit(p, "reject") /\ UNCHANGED <<messages, cache, paging, session, typing>>

\* ------------------------------------------------------------------------
\* disconnectUsers(userId)

disconnectUsers(p, u) ==
  /\ u \in Users
  /\ Call(p, [Idle EXCEPT !.op = "disconnect", !.pc = "readUser", !.caller = u,
                          !.from = u,
                          !.pre = users[u].connection_status = CONNECTED])
  /\ UNCHANGED <<users, requests, faults, tried, singleFlight, clientVars, chatVars, paging, msgs, messages, cache>>

\* 1. Get the user and their connected partner
\* .select('id, connected_to').eq('id', userId)
\* .eq('connection_status', 'connected').single()
Disconnect_readUser(p) ==
  LET u == procs[p].from IN
  /\ procs[p].op = "disconnect"
  /\ procs[p].pc = "readUser"
  /\ IF users[u].connection_status = CONNECTED /\ users[u].connected_to # NoUser
     THEN /\ procs' = [procs EXCEPT ![p].pc = "updUser",
                                    ![p].to = users[u].connected_to]
          /\ ret' = NoRet
     ELSE Throw(p, "NotConnected")
  /\ UNCHANGED <<users, requests, faults, tried, singleFlight, clientVars, chatVars, paging, msgs, messages, cache>>

\* 2. Update both users to disconnected status
Disconnect_updUser(p) ==
  /\ procs[p].op = "disconnect"
  /\ procs[p].pc = "updUser"
  /\ UpdateUser(p, procs[p].from, UserRow(DISCONNECTED, NoUser), "updPeer")

Disconnect_updPeer(p) ==
  /\ procs[p].op = "disconnect"
  /\ procs[p].pc = "updPeer"
  /\ UpdateUser(p, procs[p].to, UserRow(DISCONNECTED, NoUser), "commit")

\* resetStore(): messages: [], hasMoreMessages: true, currentPage: 0, ...
resetStore ==
  /\ messages' = <<>>
  /\ paging' = InitPaging
  /\ typing' = InitTyping
  /\ UNCHANGED cache

\* SettingsScreen.confirmDisconnect, the caller of disconnect(user.id) on the
\* client of u: if (success) { resetMessageStore(); ... }
confirmDisconnect_success(u) ==
  IF u = Me THEN resetStore ELSE UNCHANGED <<messages, cache, paging, typing>>

\* disconnectUsers returns { success: true } to its caller
Disconnect_commit(p) ==
  /\ Commit(p, "disconnect")
  /\ confirmDisconnect_success(procs[p].from)
  /\ session' = IF procs[p].from = Me
                THEN [session EXCEPT !.connectionStatus = DISCONNECTED,
                                     !.connectedUser = NoUser]
                ELSE session

\* ------------------------------------------------------------------------
\* useConnectionStore on the client of Me: getConnectedUser and the handler of
\* UPDATE events of the user's row

\* the handler of the users subscription with payload.new = row:
\* set({ connectionStatus: updatedUser.connection_status }), then either
\* await connectionService.getConnectedUser(userId) or
\* set({ connectedUser: null })
handleUserUpdate(p, row) ==
  IF row.connection_status = CONNECTED /\ row.connected_to # NoUser
  THEN /\ Start(p, [Idle EXCEPT !.op = "event", !.pc = "getUser",
                                !.caller = Me])
       /\ session' = [session EXCEPT
                        !.connectionStatus = row.connection_status]
  ELSE /\ session' = [session EXCEPT
                        !.connectionStatus = row.connection_status,
                        !.connectedUser = NoUser]
       /\ procs' = procs
       /\ ret' = NoRet

\* the oldest event of the user's row is delivered
onUserUpdate(p) ==
  /\ session.subscribed
  /\ events # <<>>
  /\ handleUserUpdate(p, Head(events))
  /\ events' = Tail(events)
  /\ UNCHANGED <<users, requests, faults, tried, singleFlight, typing, chatVars,
                 paging, msgs, messages, cache>>

\* the oldest event is delivered now and will be delivered once more
onUserUpdate_again(p) ==
  /\ session.subscribed
  /\ events # <<>>
  /\ handleUserUpdate(p, Head(events))
  /\ UNCHANGED <<users, requests, faults, tried, singleFlight, events, typing,
                 chatVars, paging, msgs, messages, cache>>

\* a later event is delivered before an earlier one
onUserUpdate_outOfOrder(p) ==
  /\ session.subscribed
  /\ \E i \in 2..Len(events) :
       /\ handleUserUpdate(p, events[i])
       /\ events' = SubSeq(events, 1, i - 1) \o
                    SubSeq(events, i + 1, Len(events))
  /\ UNCHANGED <<users, requests, faults, tried, singleFlight, typing, chatVars,
                 paging, msgs, messages, cache>>

\* the channel is down while the row changes: the oldest event never arrives
Realtime_drop ==
  /\ session.subscribed
  /\ events # <<>>
  /\ events' = Tail(events)
  /\ UNCHANGED <<users, requests, faults, tried, singleFlight, session, typing,
                 chatVars, paging, msgs, messages, cache, procs, ret>>

\* useConnectionStore.getConnectedUser(userId) (ChatScreen, on mount)
getConnectedUser(p) ==
  /\ session.subscribed
  /\ Start(p, [Idle EXCEPT !.op = "refresh", !.pc = "readStatus",
                           !.caller = Me])
  /\ UNCHANGED <<users, requests, faults, tried, singleFlight, clientVars,
                 chatVars, paging, msgs, messages, cache>>

\* .from('users').select('connection_status').eq('id', userId).single(), then
\* set({ connectionStatus: userData.connection_status }) and, unless the
\* status is connected, set({ connectedUser: null })
Refresh_readStatus(p) ==
  /\ procs[p].op = "refresh"
  /\ procs[p].pc = "readStatus"
  /\ IF users[Me].connection_status = CONNECTED
     THEN /\ Goto(p, "getUser")
          /\ session' = [session EXCEPT !.connectionStatus = CONNECTED]
     ELSE /\ Return(p, "ok")
          /\ session' = [session EXCEPT
                           !.connectionStatus = users[Me].connection_status,
                           !.connectedUser = NoUser]
  /\ UNCHANGED <<users, requests, faults, tried, singleFlight, events, typing,
                 chatVars, paging, msgs, messages, cache>>

\* connectionService.getConnectedUser(userId): the row's connected_to where
\* connection_status is connected, then that user's row; { data: null }
\* when the first read finds no row
GetUser_read(p) ==
  /\ procs[p].op \in {"event", "refresh"}
  /\ procs[p].pc = "getUser"
  /\ procs' = [procs EXCEPT
       ![p].pc = "setUser",
       ![p].to = IF users[Me].connection_status = CONNECTED
                 THEN users[Me].connected_to ELSE NoUser]
  /\ ret' = NoRet
  /\ UNCHANGED <<users, requests, faults, tried, singleFlight, clientVars,
                 chatVars, paging, msgs, messages, cache>>

\* set({ connectedUser: data })
GetUser_set(p) ==
  /\ procs[p].op \in {"event", "refresh"}
  /\ procs[p].pc = "setUser"
  /\ session' = [session EXCEPT !.connectedUser = procs[p].to]
  /\ Return(p, "ok")
  /\ UNCHANGED <<users, requests, faults, tried, singleFlight, events, typing,
                 chatVars, paging, msgs, messages, cache>>

\* ------------------------------------------------------------------------
\* messages: the service's insert and the message store's loadMessages

\* read_at: null
Null == 0

\* no localStatus field: rows of the store carry none
NoStatus == "absent"

\* A content string is kept as the lengths of its leading white space, of its
\* text from the first to the last character that is not white space, and of
\* its trailing white space.
Contents == {<<1, 0, 0>>, <<1, 2, 0>>, <<0, 500, 0>>, <<0, 501, 0>>}

\* content.trim()
trim(c) == <<0, c[2], 0>>

\* content.length
length(c) == c[1] + c[2] + c[3]

\* if (content.length > 500)
MaxContentLength == 500

\* a row of the messages table, or an entry of the window; created_at is
\* left out, the rows are kept in the order of their insertion
MessageRow(id, f, t, c) ==
  [id |-> id, from_user |-> f, to_user |-> t, content |-> c,
   read_at |-> Null, localStatus |-> NoStatus]

\* the content the peer's client sends
PeerContent == <<0, 2, 0>>

\* s.slice(-n)
SliceLast(s, n) ==
  IF Len(s) <= n THEN s ELSE SubSeq(s, Len(s) - n + 1, Len(s))

\* s.slice(offset, offset + limit): .range(offset, offset + limit - 1)
Range(s, offset, limit) ==
  SubSeq(s, offset + 1, IF Len(s) < offset + limit THEN Len(s) ELSE offset + limit)

Reverse(s) == [i \in 1..Len(s) |-> s[Len(s) + 1 - i]]

\* messageService.sendMessage(fromUserId, toUserId, content): one insert,
\* issued by the message store's sendMessage of a connected user
messageService_sendMessage(f, t) ==
  /\ Quiescent
  /\ Me \in {f, t}
  /\ f # t
  /\ users[f].connection_status = CONNECTED
  /\ users[f].connected_to = t
  /\ Len(msgs) < MaxMessages
  /\ msgs' = Append(msgs, MessageRow(<<"srv", Len(msgs) + 1>>, f, t,
                                      PeerContent))
  /\ ret' = NoRet
  /\ UNCHANGED <<users, requests, procs, faults, tried, singleFlight, clientVars, chatVars, paging,
               messages, cache>>

\* messageService.getMessageHistory(userId, partnerId, offset, limit):
\* the conversation's rows, newest first, rows offset .. offset + limit - 1
getMessageHistory(userId, partnerId, offset, limit) ==
  Range(Reverse(SelectSeq(msgs, LAMBDA m :
          \/ m.from_user = userId /\ m.to_user = partnerId
          \/ m.from_user = partnerId /\ m.to_user = userId)),
        offset, limit)

\* loadMessages is called by the chat screen and by initializeStore
LoadOps == {"load", "init"}

\* loadMessages(userId, partnerId, refresh) on Me's client, for the chat with
\* the connected partner: set({ isLoadingMessages: true }), page = refresh ?
\* 0 : get().currentPage
loadMessages(p, partnerId, refresh) ==
  /\ partnerId \in Users \ {Me}
  /\ users[Me].connection_status = CONNECTED
  /\ users[Me].connected_to = partnerId
  /\ refresh \/ Len(messages) < MaxWindow
  /\ Call(p, [Idle EXCEPT !.op = "load", !.pc = "fetch", !.caller = Me,
                          !.from = Me, !.to = partnerId, !.refresh = refresh,
                          !.page = IF refresh THEN 0 ELSE paging.currentPage])
  /\ paging' = [paging EXCEPT !.isLoadingMessages = TRUE]
  /\ UNCHANGED <<users, requests, faults, tried, singleFlight, clientVars, chatVars, msgs, messages, cache>>

\* await messageService.getMessageHistory(userId, partnerId, offset, ...)
Load_fetch(p) ==
  /\ procs[p].op \in LoadOps
  /\ isOnline
  /\ procs[p].pc = "fetch"
  /\ procs' = [procs EXCEPT
       ![p].pc = "apply",
       ![p].data = getMessageHistory(procs[p].from, procs[p].to,
                                     procs[p].page * messagesPerPage,
                                     messagesPerPage)]
  /\ ret' = NoRet
  /\ UNCHANGED <<users, requests, faults, tried, singleFlight, clientVars, chatVars, paging, msgs, messages, cache>>

\* markAllAsRead(fromUserId), local part: read_at of the peer's unread
\* entries becomes new Date()
MarkAllRead(w, fromUserId) ==
  [i \in 1..Len(w) |->
     IF w[i].from_user = fromUserId /\ w[i].read_at = Null
     THEN [w[i] EXCEPT !.read_at = clock] ELSE w[i]]

\* messageService.markAllMessagesAsRead(fromUserId, toUserId):
\* .update({read_at}).eq('from_user', ..).eq('to_user', ..).is('read_at', null)
markAllMessagesAsRead(fromUserId, toUserId) ==
  [i \in 1..Len(msgs) |->
     IF /\ msgs[i].from_user = fromUserId
        /\ msgs[i].to_user = toUserId
        /\ msgs[i].read_at = Null
     THEN [msgs[i] EXCEPT !.read_at = clock] ELSE msgs[i]]

ApplyLoad_alwaysAppend(p) ==
  LET data == procs[p].data
      combined == messages \o data
      trimmed == SliceLast(combined, WindowLimit)
      unread == \E i \in 1..Len(data) :
                  data[i].from_user = procs[p].to /\ data[i].read_at = Null
  IN
  /\ cache' = [cache EXCEPT ![procs[p].to] = SliceLast(trimmed, CacheLimit)]
  /\ paging' = [paging EXCEPT
       !.hasMoreMessages = Len(data) = messagesPerPage,
       !.currentPage = IF procs[p].refresh THEN 0 ELSE @,
       !.isLoadingMessages = FALSE]
  /\ IF unread
     THEN /\ msgs' = markAllMessagesAsRead(procs[p].to, procs[p].from)
          /\ messages' = MarkAllRead(trimmed, procs[p].to)
     ELSE /\ msgs' = msgs
          /\ messages' = trimmed

\* set(state => ...): replace or append, keep the last 200, cache the last
\* 100; then markAllAsRead(partnerId) if the page holds an unread message of
\* the peer
ApplyLoad(p) ==
  LET data == procs[p].data
      combined == IF procs[p].refresh THEN data ELSE messages \o data
      trimmed == SliceLast(combined, WindowLimit)
      unread == \E i \in 1..Len(data) :
                  data[i].from_user = procs[p].to /\ data[i].read_at = Null
  IN
  /\ cache' = [cache EXCEPT ![procs[p].to] = SliceLast(trimmed, CacheLimit)]
  /\ paging' = [paging EXCEPT
       !.hasMoreMessages = Len(data) = messagesPerPage,
       !.currentPage = IF procs[p].refresh THEN 0 ELSE @,
       !.isLoadingMessages = FALSE]
  /\ IF unread
     THEN /\ msgs' = markAllMessagesAsRead(procs[p].to, procs[p].from)
          /\ messages' = MarkAllRead(trimmed, procs[p].to)
     ELSE /\ msgs' = msgs
          /\ messages' = trimmed

\* the page is applied and loadMessages returns; a call that saw this
\* refresh start while it was running has now been overtaken by it
Load_apply(p) ==
  /\ procs[p].op = "load"
  /\ procs[p].pc = "apply"
  /\ ApplyLoad(p)
  /\ procs' = [q \in Procs |->
       IF q = p THEN Idle
       ELSE IF procs[p].refresh /\ procs[q].overtaken = "started"
       THEN [procs[q] EXCEPT !.overtaken = "applied"]
       ELSE procs[q]]
  /\ ret' = [procs[p] EXCEPT !.pc = "returned", !.err = "ok"]
  /\ UNCHANGED <<users, requests, faults, tried, singleFlight, clientVars, chatVars>>

\* loadMoreMessages(userId, partnerId): if (get().isLoadingMore ||
\* !get().hasMoreMessages) return; set({ isLoadingMore: true }); nextPage =
\* get().currentPage + 1
loadMoreMessages(p, partnerId) ==
  LET rec == [Idle EXCEPT !.op = "more", !.pc = "fetch", !.caller = Me,
                          !.from = Me, !.to = partnerId,
                          !.page = paging.currentPage + 1]
  IN
  /\ partnerId \in Users \ {Me}
  /\ users[Me].connection_status = CONNECTED
  /\ users[Me].connected_to = partnerId
  /\ IF paging.isLoadingMore \/ ~paging.hasMoreMessages
     THEN /\ ~Running(p)
          /\ procs' = procs
          /\ ret' = [rec EXCEPT !.pc = "returned", !.err = "ok"]
          /\ UNCHANGED paging
     ELSE /\ Call(p, rec)
          /\ paging' = [paging EXCEPT !.isLoadingMore = TRUE]
  /\ UNCHANGED <<users, requests, faults, tried, singleFlight, clientVars, chatVars, msgs,
                 messages, cache>>

\* await messageService.getMessageHistory(userId, partnerId, offset, ...)
LoadMore_fetch(p) ==
  /\ procs[p].op = "more"
  /\ isOnline
  /\ procs[p].pc = "fetch"
  /\ procs' = [procs EXCEPT
       ![p].pc = "apply",
       ![p].data = getMessageHistory(procs[p].from, procs[p].to,
                                     procs[p].page * messagesPerPage,
                                     messagesPerPage)]
  /\ ret' = NoRet
  /\ UNCHANGED <<users, requests, faults, tried, singleFlight, clientVars, chatVars, paging,
                 msgs, messages, cache>>

\* set(state => ...): append the page, keep the last 200, cache the last
\* 100, currentPage: nextPage, isLoadingMore: false
LoadMore_apply(p) ==
  LET data == procs[p].data
      trimmed == SliceLast(messages \o data, WindowLimit)
  IN
  /\ procs[p].op = "more"
  /\ procs[p].pc = "apply"
  /\ messages' = trimmed
  /\ cache' = [cache EXCEPT ![procs[p].to] = SliceLast(trimmed, CacheLimit)]
  /\ paging' = [paging EXCEPT
       !.hasMoreMessages = Len(data) = messagesPerPage,
       !.currentPage = procs[p].page,
       !.isLoadingMore = FALSE]
  /\ Return(p, "ok")
  /\ UNCHANGED <<users, requests, faults, tried, singleFlight, clientVars, chatVars, msgs>>

\* ------------------------------------------------------------------------
\* The message store of Me's client (useMessageStore) in the chat with the
\* connected peer.  Date.now() is read from clock, which advances with every
\* request the store's sendMessage and markAsRead await and between two
\* calls of the user.

\* sends of one behaviour that reach the Date.now() clock
MaxClock == 4

\* useConnectionStore.getState().connectedUser
Partner == users[Me].connected_to

InChat ==
  /\ users[Me].connection_status = CONNECTED
  /\ Partner \in Users \ {Me}

\* messageService.sendMessage: the validation that precedes the insert
Validate(c) ==
  IF length(trim(c)) = 0 THEN "EmptyContent"
  ELSE IF length(c) > MaxContentLength THEN "ContentTooLong"
  ELSE "ok"

\* an entry the store builds itself: from_user: user.id, to_user:
\* connectedUser.id, read_at: null, localStatus
Entry(id, c, status) ==
  [MessageRow(id, Me, Partner, c) EXCEPT !.localStatus = status]

SendOps == {"sendMessage", "retry"}

\* sends that have taken a place in the messages table or may still take one
Planned ==
  Len(msgs) + Len(queue)
    + Cardinality({q \in Procs : procs[q].op \in SendOps /\ Running(q)})

\* every running call has seen another callback change the store
Disturb == [q \in Procs |-> IF Running(q) THEN [procs[q] EXCEPT !.solo = FALSE]
                            ELSE procs[q]]

\* the call in slot p resolves with result res; rec holds its locals
ReturnWith(p, rec, res) ==
  /\ procs' = [procs EXCEPT ![p] = Idle]
  /\ ret' = [rec EXCEPT !.pc = "returned", !.err = res]

AfterSend_keepFailed(rec, w) == w

\* retryFailedMessage, after await get().sendMessage(msg.content):
\* messages.filter(m => m.id !== tempId); sendMessage itself returns w
AfterSend(rec, w) ==
  IF rec.op = "retry" THEN SelectSeq(w, LAMBDA m : m.id # rec.retryOf) ELSE w

addToOfflineQueue_front(toUserId, c, at) ==
  <<[toUserId |-> toUserId, content |-> c, createdAt |-> at]>> \o queue

\* messageService.addToOfflineQueue(toUserId, content): queue.push({
\* toUserId, content, createdAt: new Date().toISOString() })
addToOfflineQueue(toUserId, c, at) ==
  Append(queue, [toUserId |-> toUserId, content |-> c, createdAt |-> at])

\* if (!get().isOnline) { addToOfflineQueue(...); messages: [optimistic,
\* ...state.messages]; return }
\* setTypingStatus(isTyping) up to its await: nothing while isOnline is
\* false; otherwise clearTimeout(typingTimeout), set({ isTyping }), a
\* 5-second timer when isTyping is true, set({ typingTimeout: timeoutId }).
\* The typing indicator it then writes to the store is not part of this
\* model.
SetTyping(b) ==
  IF ~isOnline THEN typing
  ELSE [isTyping |-> b, typingTimeout |-> b, armed |-> b]

\* MessageInput: the text changes (true), or is sent or left alone for two
\* seconds (false)
setTypingStatus(b) ==
  /\ InChat
  /\ singleFlight => Quiescent
  /\ typing' = SetTyping(b)
  /\ typing' # typing
  /\ procs' = procs
  /\ ret' = NoRet
  /\ UNCHANGED <<users, requests, faults, tried, singleFlight, session,
                 events, chatVars, paging, msgs, messages, cache>>

\* the 5-second timer fires: get().setTypingStatus(false)
typingTimeout_fires ==
  /\ typing.armed
  /\ typing' = IF ~isOnline THEN [typing EXCEPT !.armed = FALSE]
               ELSE InitTyping
  /\ procs' = procs
  /\ ret' = NoRet
  /\ UNCHANGED <<users, requests, faults, tried, singleFlight, session,
                 events, chatVars, paging, msgs, messages, cache>>

\* cleanupSubscriptions(): clearTimeout(typingTimeout), typingTimeout: null;
\* isTyping is not set
CleanedUp == [typing EXCEPT !.typingTimeout = FALSE, !.armed = FALSE]

\* ChatScreen is left, or the app goes to the background
cleanupSubscriptions ==
  /\ InChat
  /\ singleFlight => Quiescent
  /\ typing' = CleanedUp
  /\ typing' # typing
  /\ procs' = procs
  /\ ret' = NoRet
  /\ UNCHANGED <<users, requests, faults, tried, singleFlight, session,
                 events, chatVars, paging, msgs, messages, cache>>

OfflineBranch(rec, at) ==
  /\ queue' = addToOfflineQueue(rec.to, rec.content, at)
  /\ messages' = AfterSend(rec,
       <<Entry(<<"offline", at>>, rec.content, "sending")>> \o messages)

\* sendMessage(content) called while isOnline is false: setTypingStatus
\* returns at once, so the call runs to its return without a request
sendMessage_offline(c) ==
  LET rec == [Idle EXCEPT !.op = "sendMessage", !.caller = Me, !.from = Me,
                          !.to = Partner, !.content = c,
                          !.pre = Validate(c) = "ok", !.solo = TRUE,
                          !.changed = TRUE, !.w0 = messages, !.q0 = queue, !.m0 = Len(msgs),
                          !.tempId = <<"offline", clock + 1>>]
  IN
  /\ InChat
  /\ ~isOnline
  /\ singleFlight => Quiescent
  /\ clock < MaxClock
  /\ Planned < MaxMessages
  /\ OfflineBranch(rec, clock + 1)
  /\ clock' = clock + 1
  /\ procs' = Disturb
  /\ ret' = [rec EXCEPT !.pc = "returned", !.err = "ok"]
  /\ typing' = SetTyping(FALSE)
  /\ UNCHANGED <<users, requests, faults, tried, singleFlight, session, events, msgs, cache,
                 isOnline, sentLocal, pushes, delivered, paging>>

\* sendMessage(content) called while isOnline is true, up to the request of
\* setTypingStatus(false)
sendMessage(p, c) ==
  /\ InChat
  /\ isOnline
  /\ clock < MaxClock
  /\ Planned < MaxMessages
  /\ Call(p, [Idle EXCEPT !.op = "sendMessage", !.pc = "typing",
                          !.caller = Me, !.from = Me, !.to = Partner,
                          !.content = c, !.pre = Validate(c) = "ok",
                          !.online = TRUE, !.w0 = messages, !.q0 = queue, !.m0 = Len(msgs)])
  /\ typing' = SetTyping(FALSE)
  /\ UNCHANGED <<users, requests, faults, tried, singleFlight, session, events, chatVars, paging, msgs,
                 messages, cache>>

\* setTypingStatus has resolved: the offline branch if isOnline is false by
\* now; otherwise the optimistic entry is prepended and
\* messageService.sendMessage is called, which returns the validation error
\* without a request or issues the insert
SendMessage_typing(p) ==
  LET rec == procs[p]
      now == clock + 1
      tempId == <<"temp", now>>
      v == Validate(rec.content)
  IN
  /\ rec.op \in SendOps
  /\ rec.pc = "typing"
  /\ clock' = now
  /\ IF ~isOnline
     THEN /\ OfflineBranch(rec, now)
          /\ ReturnWith(p, [rec EXCEPT !.online = FALSE, !.changed = TRUE,
                                       !.tempId = <<"offline", now>>], "ok")
     ELSE IF v # "ok"
     THEN /\ messages' = AfterSend(rec,
               <<Entry(tempId, rec.content, "failed")>> \o messages)
          /\ ReturnWith(p, [rec EXCEPT !.changed = TRUE, !.tempId = tempId], v)
          /\ UNCHANGED queue
     ELSE /\ messages' =
               <<Entry(tempId, rec.content, "sending")>> \o messages
          /\ procs' = [procs EXCEPT ![p].pc = "insert", ![p].tempId = tempId,
                                    ![p].changed = TRUE, ![p].calls = 1]
          /\ ret' = NoRet
          /\ UNCHANGED queue
  /\ UNCHANGED <<users, requests, faults, tried, singleFlight, clientVars, msgs, cache,
                 isOnline, sentLocal, pushes, delivered, paging>>

\* .from('messages').insert({from_user, to_user, content: content.trim(),
\* created_at}).select().single()
SendMessage_insert(p) ==
  LET rec == procs[p]
      row == MessageRow(<<"srv", Len(msgs) + 1>>, rec.from, rec.to,
                        trim(rec.content))
  IN
  /\ rec.op \in SendOps
  /\ rec.pc = "insert"
  /\ isOnline
  /\ msgs' = Append(msgs, row)
  /\ clock' = clock + 1
  /\ procs' = [procs EXCEPT ![p].pc = "sent", ![p].sid = row.id,
                            ![p].data = <<row>>]
  /\ ret' = NoRet
  /\ UNCHANGED <<users, requests, faults, tried, singleFlight, clientVars, messages, cache,
                 isOnline, queue, sentLocal, pushes, delivered, paging>>

\* messages.map(msg => msg.id === tempId ? { ...msg, localStatus: 'failed' }
\* : msg)
MarkFailed(w, id) ==
  [i \in 1..Len(w) |->
     IF w[i].id = id THEN [w[i] EXCEPT !.localStatus = "failed"] ELSE w[i]]

\* the insert fails (no network, or the store answers with an error): the
\* optimistic entry is marked failed and the error is caught
SendMessage_insertFails(p) ==
  LET rec == procs[p] IN
  /\ rec.op \in SendOps
  /\ rec.pc = "insert"
  /\ ~isOnline \/ faults < MaxFaults
  /\ faults' = IF isOnline THEN faults + 1 ELSE faults
  /\ clock' = clock + 1
  /\ messages' = AfterSend(rec, MarkFailed(messages, rec.tempId))
  /\ ReturnWith(p, rec, "StoreError")
  /\ UNCHANGED <<users, requests, tried, singleFlight, clientVars, msgs, cache, isOnline,
                 queue, sentLocal, pushes, delivered, paging>>

\* { ...data, localStatus: 'sent' }
Confirmed_optimisticContent(data, m) == [m EXCEPT !.id = data.id, !.localStatus = "sent"]

Confirmed(data, m) == [data EXCEPT !.localStatus = "sent"]

\* the insert has answered: Replace the optimistic message with the real one
SendMessage_done(p) ==
  LET rec == procs[p]
      data == rec.data[1]
      optimistic == Entry(rec.tempId, rec.content, "sending")
      replaced == [i \in 1..Len(messages) |->
                     IF messages[i].id = rec.tempId
                     THEN Confirmed(data, messages[i]) ELSE messages[i]]
  IN
  /\ rec.op \in SendOps
  /\ rec.pc = "sent"
  /\ messages' = AfterSend(rec, replaced)
  /\ sentLocal' = Append(sentLocal, Confirmed(data, optimistic))
  /\ ReturnWith(p, rec, "ok")
  /\ UNCHANGED <<users, requests, faults, tried, singleFlight, clientVars, msgs, cache,
                 isOnline, queue, clock, pushes, delivered, paging>>

\* retryFailedMessage(tempId) on a failed entry while isOnline is true:
\* await get().sendMessage(msg.content), then the failed entry is removed
retryFailedMessage(p, id) ==
  /\ InChat
  /\ isOnline
  /\ clock < MaxClock
  /\ Planned < MaxMessages
  /\ \E i \in 1..Len(messages) :
       /\ messages[i].id = id
       /\ messages[i].localStatus = "failed"
       /\ Call(p, [Idle EXCEPT !.op = "retry", !.pc = "typing", !.caller = Me,
                               !.from = Me, !.to = Partner,
                               !.content = messages[i].content,
                               !.pre = Validate(messages[i].content) = "ok",
                               !.online = TRUE, !.retryOf = id,
                               !.w0 = messages, !.q0 = queue, !.m0 = Len(msgs)])
  /\ typing' = SetTyping(FALSE)
  /\ UNCHANGED <<users, requests, faults, tried, singleFlight, session, events, chatVars, paging, msgs,
                 messages, cache>>

\* retryFailedMessage(tempId) while isOnline is false
retryFailedMessage_offline(id) ==
  /\ InChat
  /\ ~isOnline
  /\ singleFlight => Quiescent
  /\ clock < MaxClock
  /\ Planned < MaxMessages
  /\ \E i \in 1..Len(messages) :
       /\ messages[i].id = id
       /\ messages[i].localStatus = "failed"
       /\ LET rec == [Idle EXCEPT !.op = "retry", !.caller = Me, !.from = Me,
                                  !.to = Partner,
                                  !.content = messages[i].content,
                                  !.pre = Validate(messages[i].content) = "ok",
                                  !.solo = TRUE, !.changed = TRUE,
                                  !.retryOf = id, !.w0 = messages,
                                  !.q0 = queue, !.m0 = Len(msgs),
                                  !.tempId = <<"offline", clock + 1>>]
          IN /\ OfflineBranch(rec, clock + 1)
             /\ ret' = [rec EXCEPT !.pc = "returned", !.err = "ok"]
  /\ clock' = clock + 1
  /\ procs' = Disturb
  /\ typing' = SetTyping(FALSE)
  /\ UNCHANGED <<users, requests, faults, tried, singleFlight, session, events, msgs, cache,
                 isOnline, sentLocal, pushes, delivered, paging>>

\* ------------------------------------------------------------------------
\* messageService.processOfflineQueue(fromUserId)

DrainOps == {"drain", "init"}

\* const queue = getOfflineMessageQueue(), and the loop's first entry
DrainRec(rec) == [rec EXCEPT !.pc = "drain", !.data = queue, !.idx = 1,
                             !.q0 = queue, !.sent = <<>>]

remainingQueue_afterFailed(q, i) == SubSeq(q, i + 1, Len(q))

\* queue.slice(queue.indexOf(message))
remainingQueue(q, i) == SubSeq(q, i, Len(q))

\* await sendMessage(fromUserId, message.toUserId, message.content) succeeds;
\* after the last entry localStorage.removeItem(...) and { success: true }
Drain_send(p) ==
  LET rec == procs[p]
      message == rec.data[rec.idx]
      row == MessageRow(<<"srv", Len(msgs) + 1>>, Me, message.toUserId,
                        trim(message.content))
      next == [rec EXCEPT !.idx = rec.idx + 1, !.changed = TRUE,
                          !.sent = Append(rec.sent, message)]
  IN
  /\ rec.op \in DrainOps
  /\ rec.pc = "drain"
  /\ Validate(message.content) = "ok"
  /\ isOnline
  /\ msgs' = Append(msgs, row)
  /\ delivered' = Append(delivered, message)
  /\ clock' = clock + 1
  /\ IF rec.idx = Len(rec.data)
     THEN /\ queue' = <<>>
          /\ ReturnWith(p, next, "ok")
     ELSE /\ procs' = [procs EXCEPT ![p] = next]
          /\ ret' = NoRet
          /\ UNCHANGED queue
  /\ UNCHANGED <<users, requests, faults, tried, singleFlight, clientVars, messages, cache,
                 isOnline, sentLocal, pushes, paging>>

\* the send fails (validation, no network, or an error of the store): the
\* remaining entries are written back and the loop ends
Drain_sendFails(p) ==
  LET rec == procs[p]
      message == rec.data[rec.idx]
      request == Validate(message.content) = "ok"
  IN
  /\ rec.op \in DrainOps
  /\ rec.pc = "drain"
  /\ ~request \/ ~isOnline \/ faults < MaxFaults
  /\ faults' = IF request /\ isOnline THEN faults + 1 ELSE faults
  /\ queue' = remainingQueue(rec.data, rec.idx)
  /\ ReturnWith(p, rec, "failed")
  /\ UNCHANGED <<users, requests, tried, singleFlight, clientVars, msgs, messages, cache,
                 isOnline, clock, sentLocal, pushes, delivered, paging>>

\* ------------------------------------------------------------------------
\* initializeStore(userId, partnerId) and the NetInfo listener it registers.
\* Listeners of earlier initializeStore calls stay registered; they run after
\* the first one and find isOnline already set.

\* NetInfo reports isConnected = false: set({ isOnline: false })
NetInfo_offline ==
  /\ isOnline
  /\ isOnline' = FALSE
  /\ procs' = Disturb
  /\ ret' = NoRet
  /\ UNCHANGED <<users, requests, faults, tried, singleFlight, clientVars, msgs, messages,
                 cache, queue, clock, sentLocal, pushes, delivered, paging>>

\* a call of processOfflineQueue: with an empty queue it returns at once
StartDrain(rec) == IF queue = <<>> THEN Idle ELSE DrainRec(rec)

\* NetInfo reports isConnected = true while isOnline is false:
\* get().processOfflineQueue(); get().initializeStore(authUser.id, partnerId);
\* set({ isOnline: true }).  Neither call is awaited.
NetInfo_online ==
  LET drain == [Idle EXCEPT !.op = "drain", !.caller = Me, !.from = Me,
                            !.to = Partner]
      init == [Idle EXCEPT !.op = "init", !.pc = "readCache", !.caller = Me,
                           !.from = Me, !.to = Partner]
  IN
  /\ InChat
  /\ ~isOnline
  /\ Quiescent
  /\ Len(messages) < MaxWindow
  /\ Len(msgs) + 2 * Len(queue) <= 2 * MaxMessages
  /\ isOnline' = TRUE
  /\ procs' = [p \in Procs |-> IF p = "p1" THEN StartDrain(drain) ELSE init]
  /\ ret' = NoRet
  /\ typing' = CleanedUp
  /\ UNCHANGED <<users, requests, faults, tried, singleFlight, session, events, msgs, messages,
                 cache, queue, clock, sentLocal, pushes, delivered, paging>>

\* Load cached recent messages for quick UI, then loadMessages(userId,
\* partnerId) up to its request
Init_readCache(p) ==
  /\ procs[p].op = "init"
  /\ procs[p].pc = "readCache"
  /\ messages' = IF Len(cache[procs[p].to]) > 0 THEN cache[procs[p].to]
                 ELSE messages
  /\ procs' = [procs EXCEPT ![p].pc = "fetch",
                            ![p].page = paging.currentPage,
                            ![p].w0 = cache[procs[p].to]]
  /\ ret' = NoRet
  /\ paging' = [paging EXCEPT !.isLoadingMessages = TRUE]
  /\ UNCHANGED <<users, requests, faults, tried, singleFlight, clientVars, chatVars, msgs,
                 cache>>

\* getMessageHistory fails: loadMessages catches the error and returns;
\* initializeStore goes on to processOfflineQueue
Load_fetchFails(p) ==
  /\ procs[p].op \in LoadOps
  /\ procs[p].pc = "fetch"
  /\ ~isOnline \/ faults < MaxFaults
  /\ faults' = IF isOnline THEN faults + 1 ELSE faults
  /\ IF procs[p].op = "load" THEN Return(p, "StoreError")
     ELSE IF queue = <<>> THEN ReturnWith(p, procs[p], "ok")
     ELSE procs' = [procs EXCEPT ![p] = DrainRec(procs[p])] /\ ret' = NoRet
  /\ paging' = [paging EXCEPT !.isLoadingMessages = FALSE]
  /\ UNCHANGED <<users, requests, tried, singleFlight, clientVars, chatVars, msgs,
                 messages, cache>>

\* getMessageHistory fails in loadMoreMessages: set({ isLoadingMore: false,
\* error })
LoadMore_fetchFails(p) ==
  /\ procs[p].op = "more"
  /\ procs[p].pc = "fetch"
  /\ ~isOnline \/ faults < MaxFaults
  /\ faults' = IF isOnline THEN faults + 1 ELSE faults
  /\ Return(p, "StoreError")
  /\ paging' = [paging EXCEPT !.isLoadingMore = FALSE]
  /\ UNCHANGED <<users, requests, tried, singleFlight, clientVars, chatVars, msgs,
                 messages, cache>>

\* loadMessages has applied the page: await get().processOfflineQueue()
Init_apply(p) ==
  /\ procs[p].op = "init"
  /\ procs[p].pc = "apply"
  /\ ApplyLoad(p)
  /\ IF queue = <<>> THEN ReturnWith(p, procs[p], "ok")
     ELSE procs' = [procs EXCEPT ![p] = DrainRec(procs[p])] /\ ret' = NoRet
  /\ UNCHANGED <<users, requests, faults, tried, singleFlight, clientVars, chatVars>>

\* ------------------------------------------------------------------------
\* markAsRead(messageId) and the subscription callback that calls it

markAsRead(p, id) ==
  /\ InChat
  /\ clock < MaxClock
  /\ \E i \in 1..Len(messages) : messages[i].id = id /\ id[1] = "srv"
  /\ Call(p, [Idle EXCEPT !.op = "mark", !.pc = "markUpdate", !.caller = Me,
                          !.from = Me, !.to = Partner, !.sid = id])
  /\ UNCHANGED <<users, requests, faults, tried, singleFlight, clientVars, chatVars, paging, msgs,
                 messages, cache>>

\* messageService.markMessageAsRead: .update({ read_at: new Date() })
\* .eq('id', messageId); an error is returned, not thrown
markMessageAsRead(id) ==
  [i \in 1..Len(msgs) |->
     IF msgs[i].id = id THEN [msgs[i] EXCEPT !.read_at = clock] ELSE msgs[i]]

Mark_update(p) ==
  /\ procs[p].op = "mark"
  /\ procs[p].pc = "markUpdate"
  /\ msgs' = IF isOnline THEN markMessageAsRead(procs[p].sid) ELSE msgs
  /\ clock' = clock + 1
  /\ procs' = [procs EXCEPT ![p].pc = "markLocal",
                            ![p].changed = msgs' # msgs]
  /\ ret' = NoRet
  /\ UNCHANGED <<users, requests, faults, tried, singleFlight, clientVars, messages, cache,
                 isOnline, queue, sentLocal, pushes, delivered, paging>>

\* msg.id === messageId ? { ...msg, read_at: new Date() } : msg
SetReadAt(w, id) ==
  [i \in 1..Len(w) |->
     IF w[i].id = id THEN [w[i] EXCEPT !.read_at = clock] ELSE w[i]]

\* the update has answered: Update the message in state
Mark_local(p) ==
  /\ procs[p].op = "mark"
  /\ procs[p].pc = "markLocal"
  /\ messages' = SetReadAt(messages, procs[p].sid)
  /\ Return(p, "ok")
  /\ UNCHANGED <<users, requests, faults, tried, singleFlight, clientVars, chatVars, paging, msgs,
                 cache>>

\* the peer's client inserts a message for Me and the subscription
\* (to_user=eq.Me) delivers it: messages: [newMessage, ...state.messages] and
\* get().markAsRead(newMessage.id)
onNewMessage(p) ==
  LET row == MessageRow(<<"srv", Len(msgs) + 1>>, Partner, Me, PeerContent)
  IN
  /\ InChat
  /\ isOnline
  /\ clock < MaxClock
  /\ Planned < MaxMessages
  /\ msgs' = Append(msgs, row)
  /\ messages' = <<row>> \o messages
  /\ Call(p, [Idle EXCEPT !.op = "mark", !.pc = "markUpdate", !.caller = Me,
                          !.from = Me, !.to = Partner, !.sid = row.id])
  /\ UNCHANGED <<users, requests, faults, tried, singleFlight, clientVars, chatVars, paging, cache>>

\* the subscription delivers the INSERT event of a row to Me once more: the
\* callback runs again with the same payload.new
onNewMessage_again(p, id) ==
  /\ InChat
  /\ isOnline
  /\ clock < MaxClock
  /\ Len(messages) < MaxWindow
  /\ \E i \in 1..Len(msgs) :
       /\ msgs[i].id = id
       /\ msgs[i].to_user = Me
       /\ messages' = <<[msgs[i] EXCEPT !.read_at = Null]>> \o messages
  /\ Call(p, [Idle EXCEPT !.op = "mark", !.pc = "markUpdate", !.caller = Me,
                          !.from = Me, !.to = Partner, !.sid = id])
  /\ UNCHANGED <<users, requests, faults, tried, singleFlight, clientVars, chatVars, paging,
                 msgs, cache>>

\* the peer's client marks a message of Me as read (its markAsRead or
\* markAllAsRead): read_at of the row is set.  Me's subscription listens
\* to event INSERT with filter to_user=eq.Me only, so no event of this
\* update reaches Me's client.
peer_markAsRead(id) ==
  /\ InChat
  /\ isOnline
  /\ \E i \in 1..Len(msgs) :
       /\ msgs[i].id = id
       /\ msgs[i].from_user = Me
       /\ msgs[i].read_at = Null
  /\ msgs' = markMessageAsRead(id)
  /\ ret' = NoRet
  /\ UNCHANGED <<users, requests, procs, faults, tried, singleFlight, clientVars, chatVars,
                 paging, messages, cache>>

\* MessageBubble: status = propStatus ?? message.localStatus ??
\* (isRead ? 'read' : 'sent'), isRead = message.read_at !== null
Status(m) ==
  IF m.localStatus # NoStatus THEN m.localStatus
  ELSE IF m.read_at # Null THEN "read"
  ELSE "sent"

\* ------------------------------------------------------------------------
\* sendPushNotification(payload): supabase.functions.invoke(
\* 'send_notification', { body: payload }); errors are caught.  No operation
\* of the stores or services calls it.
sendPushNotification(payload) == pushes' = pushes \cup {payload}

\* ------------------------------------------------------------------------
\* The chat of the connected pair u1, u2: the state after u2 accepted u1's
\* request and u1 opened the chat of the still empty conversation.
InitPairBase ==
  /\ users = [u \in Users |->
       IF u = "u1" THEN UserRow(CONNECTED, "u2")
       ELSE IF u = "u2" THEN UserRow(CONNECTED, "u1")
       ELSE UserRow(DISCONNECTED, NoUser)]
  /\ requests = [rid \in SendPairs |->
       IF rid = <<"u1", "u2">> THEN ACCEPTED ELSE NoRow]
  /\ procs = [p \in Procs |-> Idle]
  /\ ret = NoRet
  /\ faults = 0
  /\ tried = {<<"u1", "u2">>, <<"u2", "u1">>}
  /\ cache = [u \in Users |-> <<>>]
  /\ isOnline = TRUE
  /\ queue = <<>>
  /\ clock = 1
  /\ sentLocal = <<>>
  /\ pushes = {}
  /\ delivered = <<>>
  /\ paging = InitPaging
  /\ session = InitSession
  /\ events = <<>>
  /\ typing = InitTyping

InitPairStore == InitPairBase /\ msgs = <<>>

InitPair == InitPairStore /\ messages = <<>>

\* a conversation of n messages, all read, the peer's and Me's in turn
History(n) ==
  [i \in 1..n |->
     [MessageRow(<<"srv", i>>, IF i % 2 = 1 THEN "u2" ELSE "u1",
                 IF i % 2 = 1 THEN "u1" ELSE "u2", PeerContent)
        EXCEPT !.read_at = 1]]

\* lengths of the conversation around one page
LoadSizes ==
  {0, messagesPerPage - 1, messagesPerPage, messagesPerPage + 1}

\* the chat screen opened on a conversation that exists already
InitLoad ==
  /\ InitPairBase
  /\ singleFlight = FALSE
  /\ messages = <<>>
  /\ \E n \in LoadSizes : msgs = History(n)

InitChat == InitPair /\ singleFlight = TRUE

InitOnline == InitPair /\ singleFlight = FALSE

\* texts typed where the length does not matter: blank, and two characters
\* after a space
ShortContents == {c \in Contents : length(c) <= 3}

\* rows of the conversation older than the first row of msgs, newest first,
\* as the pages loaded earlier left them in the window
Older(n) ==
  [i \in 1..n |->
     [MessageRow(<<"srv", 0 - i>>, Partner, Me, PeerContent)
        EXCEPT !.read_at = 1]]

\* the chat opened on a long conversation: the window is full or nearly so
InitWindow ==
  /\ InitPairStore
  /\ singleFlight = FALSE
  /\ \E n \in (WindowLimit - MaxWindow)..WindowLimit : messages = Older(n)

\* the user sends and the peer writes
WindowCalls ==
  \E p \in Procs :
    \/ \E c \in ShortContents : sendMessage(p, c)
    \/ onNewMessage(p)

WindowSteps ==
  \E p \in Procs :
    \/ SendMessage_typing(p)
    \/ SendMessage_insert(p)
    \/ SendMessage_done(p)
    \/ Mark_update(p)
    \/ Mark_local(p)

\* the chat while the network is up: sends, refreshes, inbound messages
OnlineCalls ==
  \E p \in Procs :
    \/ \E c \in Contents : sendMessage(p, c)
    \/ \E n \in 1..(2 * MaxMessages) : markAsRead(p, <<"srv", n>>)
    \/ onNewMessage(p)
    \/ loadMessages(p, Partner, TRUE)

OnlineSteps ==
  \E p \in Procs :
    \/ SendMessage_typing(p)
    \/ SendMessage_insert(p)
    \/ SendMessage_done(p)
    \/ Load_fetch(p)
    \/ Load_apply(p)
    \/ Mark_update(p)
    \/ Mark_local(p)

\* the chat while the network goes and returns
ChatCalls ==
  \/ \E c \in Contents : sendMessage_offline(c)
  \/ \E p \in Procs, c \in Contents : sendMessage(p, c)
  \/ \E p \in Procs, t \in 1..(MaxClock + 2) :
       retryFailedMessage(p, <<"temp", t>>)
  \/ \E t \in 1..(MaxClock + 2) : retryFailedMessage_offline(<<"temp", t>>)
  \/ NetInfo_offline
  \/ NetInfo_online

ChatSteps ==
  \E p \in Procs :
    \/ SendMessage_typing(p)
    \/ SendMessage_insert(p)
    \/ SendMessage_insertFails(p)
    \/ SendMessage_done(p)
    \/ Drain_send(p)
    \/ Drain_sendFails(p)
    \/ Init_readCache(p)
    \/ Load_fetch(p)
    \/ Load_fetchFails(p)
    \/ Init_apply(p)

\* the chat screen loading pages while messages arrive
PagingCalls ==
  \/ \E p \in Procs, refresh \in BOOLEAN : loadMessages(p, Partner, refresh)
  \/ \E p \in Procs : loadMoreMessages(p, Partner)
  \/ \E f \in Users, t \in Users : messageService_sendMessage(f, t)

PagingSteps ==
  \E p \in Procs :
    \/ Load_fetch(p)
    \/ Load_apply(p)
    \/ Load_fetchFails(p)
    \/ LoadMore_fetch(p)
    \/ LoadMore_fetchFails(p)
    \/ LoadMore_apply(p)

\* the chat while the network is up and the peer reads and writes
RealtimeCalls ==
  \/ \E p \in Procs, c \in ShortContents : sendMessage(p, c)
  \/ \E p \in Procs : onNewMessage(p)
  \/ \E p \in Procs, n \in 1..(2 * MaxMessages) :
       onNewMessage_again(p, <<"srv", n>>)
  \/ \E n \in 1..(2 * MaxMessages) : peer_markAsRead(<<"srv", n>>)
  \/ \E p \in Procs : loadMessages(p, Partner, TRUE)

RealtimeSteps ==
  \E p \in Procs :
    \/ SendMessage_typing(p)
    \/ SendMessage_insert(p)
    \/ SendMessage_done(p)
    \/ Load_fetch(p)
    \/ Load_apply(p)
    \/ Mark_update(p)
    \/ Mark_local(p)

\* the chat while the network goes and returns and the user keeps sending:
\* the calls the NetInfo listener starts are not awaited, so a send can run
\* beside them
ReconnectCalls ==
  \/ \E c \in ShortContents : sendMessage_offline(c)
  \/ \E p \in Procs, c \in ShortContents : sendMessage(p, c)
  \/ NetInfo_offline
  \/ NetInfo_online

ReconnectSteps ==
  \E p \in Procs :
    \/ SendMessage_typing(p)
    \/ SendMessage_insert(p)
    \/ SendMessage_insertFails(p)
    \/ SendMessage_done(p)
    \/ Drain_send(p)
    \/ Drain_sendFails(p)
    \/ Init_readCache(p)
    \/ Load_fetch(p)
    \/ Load_fetchFails(p)
    \/ Init_apply(p)

\* ------------------------------------------------------------------------
\* Specifications

Calls ==
  \E p \in Procs :
    \/ \E f \in Users, t \in Users : sendConnectionRequest(p, f, t)
    \/ \E c \in Users, rid \in SendPairs : acceptConnectionRequest(p, c, rid)
    \/ \E c \in Users, rid \in SendPairs : rejectConnectionRequest(p, c, rid)
    \/ \E u \in Users : disconnectUsers(p, u)

\* operations of the client of Me, and the messages sent in its conversation
ClientCalls ==
  \/ \E p \in Procs, u \in Users, refresh \in BOOLEAN :
       loadMessages(p, u, refresh)
  \/ \E f \in Users, t \in Users : messageService_sendMessage(f, t)

ClientSteps ==
  \E p \in Procs :
    \/ Load_fetch(p)
    \/ Load_apply(p)

Steps ==
  \E p \in Procs :
    \/ Send_readUsers(p)
    \/ Send_checkExisting(p)
    \/ Send_insert(p)
    \/ Send_updFrom(p)
    \/ Send_updTo(p)
    \/ Send_commit(p)
    \/ Accept_readReq(p)
    \/ Accept_updReq(p)
    \/ Accept_updFrom(p)
    \/ Accept_updTo(p)
    \/ Accept_commit(p)
    \/ Reject_readReq(p)
    \/ Reject_updReq(p)
    \/ Reject_updFrom(p)
    \/ Reject_updTo(p)
    \/ Reject_commit(p)
    \/ Disconnect_readUser(p)
    \/ Disconnect_updUser(p)
    \/ Disconnect_updPeer(p)
    \/ Disconnect_commit(p)

Faults == \E p \in Procs : StoreError(p)

\* calls of the connection store of a signed-in user
SessionCalls ==
  \E p \in Procs, me \in Users, t \in Users : sendRequest(p, me, t)

\* One operation at a time; a request to the store may fail.
Next == Calls \/ Steps \/ Faults

Spec == Init /\ [][Next]_vars

\* Operations of two callbacks or two devices overlap; no request fails.
NextConcurrent == Calls \/ Steps

SpecConcurrent == InitConcurrent /\ [][NextConcurrent]_vars

\* One operation at a time, no request fails; the client of Me loads and
\* receives messages.
NextClient == Calls \/ Steps \/ ClientCalls \/ ClientSteps

SpecClient == Init /\ [][NextClient]_vars

\* One operation at a time, no request fails; requests are sent through the
\* connection store as well as by the service.
NextSession == Calls \/ SessionCalls \/ Steps

SpecSession == Init /\ [][NextSession]_vars

\* The connection store of Me's client with its subscription on the user's
\* row: one operation of the service at a time, while the handlers of the
\* subscription and getConnectedUser run; no request fails, every event of
\* the row is delivered once and in order.
Deliver == \E p \in Procs : onUserUpdate(p)

HandlerSteps == \E p \in Procs : GetUser_read(p) \/ GetUser_set(p)

RefreshSteps == \E p \in Procs : getConnectedUser(p) \/ Refresh_readStatus(p)

NextEvents ==
  Calls \/ SessionCalls \/ Steps \/ Deliver \/ HandlerSteps \/ RefreshSteps

SpecEvents == InitEvents /\ [][NextEvents]_vars

\* The operations of the service and the handlers, where the channel may
\* deliver an event twice or after a later one.
Redeliver ==
  \E p \in Procs : onUserUpdate_again(p) \/ onUserUpdate_outOfOrder(p)

NextRedelivery == Calls \/ Steps \/ Deliver \/ HandlerSteps \/ Redeliver

SpecRedelivery == InitEvents /\ [][NextRedelivery]_vars

\* The operations of the service and the handlers, where the channel may
\* lose an event.
NextLossy == Calls \/ Steps \/ Deliver \/ HandlerSteps \/ Realtime_drop

SpecLossy == InitEvents /\ [][NextLossy]_vars

\* The chat while the user types between sends, the network goes and
\* returns and the screen is left.
TypingCalls ==
  \/ \E b \in BOOLEAN : setTypingStatus(b)
  \/ typingTimeout_fires
  \/ cleanupSubscriptions

NextTyping == ChatCalls \/ ChatSteps \/ TypingCalls

SpecTyping == InitChat /\ [][NextTyping]_vars

\* One operation at a time, no request fails; a request may be accepted by
\* any user, with or without the policies of migration 004.
AnyoneAccepts ==
  \E p \in Procs, c \in Users, rid \in SendPairs, rls \in BOOLEAN :
    acceptConnectionRequest_as(p, c, rid, rls)

NextAnyone == Calls \/ Steps \/ AnyoneAccepts

SpecAnyone == Init /\ [][NextAnyone]_vars

\* The message store of Me's client in the chat of a connected pair: one
\* call of the user at a time, the network goes and returns, a request may
\* fail.
NextChat == ChatCalls \/ ChatSteps

SpecChat == InitChat /\ [][NextChat]_vars

\* The same chat with the network up and no failing request: the callbacks
\* of the client overlap.
NextOnline == OnlineCalls \/ OnlineSteps

SpecOnline == InitOnline /\ [][NextOnline]_vars

\* ------------------------------------------------------------------------
\* Properties

Succeeded(op) == ret.op = op /\ ret.err = "ok"

Disconnected(u) == users[u] = UserRow(DISCONNECTED, NoUser)

ConnectedPair(a, b) ==
  /\ users[a] = UserRow(CONNECTED, b)
  /\ users[b] = UserRow(CONNECTED, a)

PendingBetween(a, b) ==
  {rid \in RequestIds :
     requests[rid] = PENDING /\ {from_user(rid), to_user(rid)} = {a, b}}

PendingOf(u) ==
  {rid \in RequestIds :
     requests[rid] = PENDING /\ u \in {from_user(rid), to_user(rid)}}

\* C1: whenever no operation is in flight, every user record has connected_to
\* set exactly when its status is connected, and connected_to is symmetric.
C1_UserRecordsConsistent ==
  Quiescent =>
    \A u \in Users :
      /\ users[u].connected_to # NoUser
           <=> users[u].connection_status = CONNECTED
      /\ users[u].connected_to # NoUser
           => users[users[u].connected_to].connected_to = u

\* C2: no user is a party to two pending requests, to a pending request and a
\* connection, or to two connections.
C2_AtMostOneActive ==
  \A u \in Users :
    /\ Cardinality(PendingOf(u))
         + (IF users[u].connection_status = CONNECTED THEN 1 ELSE 0) <= 1
    /\ Cardinality({v \in Users : users[v].connected_to = u}) <= 1

\* C3: a sendConnectionRequest(A, B) called when A and B are distinct and both
\* disconnected, running alone and with no failing request to the store,
\* succeeds and leaves both users pending with exactly one pending request for
\* the pair, the one from A to B.
C3_SendSucceeds ==
  (ret.op = "send" /\ ret.pre /\ ret.solo /\ ret.err # "StoreError") =>
    /\ ret.err = "ok"
    /\ users[ret.from].connection_status = PENDING
    /\ users[ret.to].connection_status = PENDING
    /\ PendingBetween(ret.from, ret.to) = {<<ret.from, ret.to>>}

\* C4: at most one pending request exists for any unordered pair of users.
C4_OnePendingPerPair ==
  \A a \in Users, b \in Users : Cardinality(PendingBetween(a, b)) <= 1

C6_OneAcceptSucceeds == Succeeded("accept") => ret.prev # ACCEPTED

C8_TerminalImmutable ==
  [][\A rid \in SendPairs :
       requests[rid] \in {ACCEPTED, REJECTED} => requests'[rid] = requests[rid]]_vars

\* C9: a disconnect of Me on a connected pair that succeeds leaves both users
\* disconnected with connected_to null and Me's client with an empty message
\* window and an empty persisted cache of the conversation.
C9_DisconnectClearsHistory ==
  (Succeeded("disconnect") /\ ret.from = Me /\ ret.solo /\ ret.pre) =>
    /\ Disconnected(Me)
    /\ Disconnected(ret.to)
    /\ messages = <<>>
    /\ cache[ret.to] = <<>>

\* C10: an operation that returns failure has changed no row.
C10_Atomic == (ret.op # "none" /\ ret.err # "ok") => ~ret.changed

\* ------------------------------------------------------------------------
\* The message store

\* the entries of the window with the given id
WithId(id) == {i \in 1..Len(messages) : messages[i].id = id}

\* C11: a sendMessage whose content is blank after trimming or longer than
\* 500 characters returns a validation error and leaves the window, the
\* offline queue and the messages table as they were, online and offline.
C11_InvalidRejected ==
  (ret.op = "sendMessage" /\ ~ret.pre) =>
    /\ ret.err \in {"EmptyContent", "ContentTooLong"}
    /\ messages = ret.w0
    /\ queue = ret.q0
    /\ Len(msgs) = ret.m0

\* C12: after an online sendMessage has succeeded, the window holds exactly
\* one entry with the id of the server record and none with the temporary
\* id, whatever refresh or inbound message was handled meanwhile.
C12_ReplacedInPlace ==
  (ret.op = "sendMessage" /\ ret.err = "ok" /\ ret.online) =>
    /\ Cardinality(WithId(ret.sid)) = 1
    /\ WithId(ret.tempId) = {}

\* C13: an online send whose request fails leaves its optimistic entry in the
\* window with localStatus failed; after retryFailedMessage(id) on a failed
\* entry no entry with that id remains, and the retry has left exactly one
\* entry of its own, which carries the content of the failed entry.
C13_RetryReplacesFailed ==
  /\ (ret.op \in SendOps /\ ret.err = "StoreError") =>
       /\ Cardinality(WithId(ret.tempId)) = 1
       /\ \A i \in WithId(ret.tempId) :
            /\ messages[i].localStatus = "failed"
            /\ messages[i].content = ret.content
  /\ ret.op = "retry" =>
       LET new == IF ret.err = "ok" /\ ret.online THEN ret.sid ELSE ret.tempId
       IN
       /\ WithId(ret.retryOf) = {}
       /\ Cardinality(WithId(new)) = 1
       /\ \A i \in WithId(new), k \in 1..Len(ret.w0) :
            ret.w0[k].id = ret.retryOf =>
              /\ ret.w0[k].localStatus = "failed"
              /\ messages[i].content
                   \in {ret.w0[k].content, trim(ret.w0[k].content)}

\* a send failed at the store, and the retry of its entry has succeeded
C13_RetriedAfterFailure ==
  /\ ret.op = "retry"
  /\ ret.err = "ok"
  /\ ret.online
  /\ ret.pre
  /\ faults > 0
  /\ Cardinality(WithId(ret.sid)) = 1

C15_OfflineSendsConfirmed ==
  (Quiescent /\ isOnline /\ queue = <<>>) =>
    \A i \in 1..Len(messages) : messages[i].localStatus # "sending"

\* C16: a drain sends the entries of the queue it read in their order; when
\* a send fails it has sent exactly the entries before the failed one and
\* the queue is the rest from the failed entry on, in order; when every send
\* succeeds it has sent every entry and the queue is empty.
C16_DrainFifo ==
  (ret.op \in DrainOps /\ ret.idx >= 1) =>
    LET n == Len(ret.sent) IN
    /\ ret.data = ret.q0
    /\ ret.sent = SubSeq(ret.data, 1, n)
    /\ ret.err \in {"ok", "failed"}
    /\ ret.err = "ok" => n = Len(ret.data) /\ queue = <<>>
    /\ ret.err = "failed" =>
         /\ n < Len(ret.data)
         /\ ret.idx = n + 1
         /\ queue = SubSeq(ret.data, n + 1, Len(ret.data))

\* a drain of two entries has sent the first and failed at the second
C16_StoppedAtSecond ==
  /\ ret.op \in DrainOps
  /\ ret.err = "failed"
  /\ Len(ret.data) = 2
  /\ ret.sent = <<ret.data[1]>>
  /\ queue = <<ret.data[2]>>

\* C17: the fetch of the refresh that follows a reconnection is issued only
\* after the drain the reconnection started has returned.
C17_DrainBeforeRefresh ==
  \A p \in Procs :
    (procs[p].op = "init" /\ procs[p].pc = "apply") =>
      \A q \in Procs : ~(procs[q].op = "drain" /\ Running(q))

\* C18: read_at of a row of the messages table, once set, is never written
\* again.
C18_ReadAtKept ==
  [][\A i \in 1..Len(msgs) :
       msgs[i].read_at # Null => msgs'[i].read_at = msgs[i].read_at]_vars

\* C19: after loadMessages(refresh = true), every message an online
\* sendMessage has confirmed is in the window with the content, from_user and
\* to_user of the entry sendMessage left, and with localStatus absent or
\* sent.
C19_RoundTrip ==
  (ret.op = "load" /\ ret.refresh /\ ret.solo /\ ret.err = "ok") =>
    \A k \in 1..Len(sentLocal) :
      \E i \in 1..Len(messages) :
        /\ messages[i].id = sentLocal[k].id
        /\ messages[i].content = sentLocal[k].content
        /\ messages[i].from_user = sentLocal[k].from_user
        /\ messages[i].to_user = sentLocal[k].to_user
        /\ messages[i].localStatus \in {NoStatus, "sent"}

\* a message sent with surrounding white space has been fetched by a refresh
C19_SentThenRefreshed ==
  /\ ret.op = "load"
  /\ ret.refresh
  /\ ret.solo
  /\ ret.err = "ok"
  /\ \E k \in 1..Len(sentLocal), i \in 1..Len(messages) :
       /\ messages[i].id = sentLocal[k].id
       /\ messages[i].localStatus = NoStatus
       /\ messages[i].content = trim(<<1, 2, 0>>)

\* C20: when a connection request has been sent or accepted, or a disconnect
\* has succeeded, a notification addressed to a user has been requested.
C20_PeerNotified ==
  (ret.op \in {"send", "accept", "disconnect"} /\ ret.err = "ok") =>
    \E n \in pushes : n.toUserId \in {ret.from, ret.to}

\* The chat under reconnects, calls overlapping.
NextReconnect == ReconnectCalls \/ ReconnectSteps

SpecReconnect == InitOnline /\ [][NextReconnect]_vars

\* The chat with the peer's reads and the subscription's deliveries.
NextRealtime == RealtimeCalls \/ RealtimeSteps

SpecRealtime == InitOnline /\ [][NextRealtime]_vars

\* The chat screen's page loads, calls overlapping.
NextPaging == PagingCalls \/ PagingSteps

SpecPaging == InitLoad /\ [][NextPaging]_vars

\* The chat on a long conversation.
NextWindow == WindowCalls \/ WindowSteps

SpecWindow == InitWindow /\ [][NextWindow]_vars

\* C21: a request sent through the connection store's sendRequest reaches
\* sendConnectionRequest with the signed-in user as sender, and for two
\* disconnected users it succeeds.
C21_SenderIsCurrentUser ==
  (ret.op = "send" /\ ret.pc = "returned") =>
    /\ ret.from = ret.caller
    /\ (ret.pre /\ <<ret.caller, ret.to>> \in SendPairs
          /\ requests[<<ret.caller, ret.to>>] = NoRow) => ret.err = "ok"

\* C22: localStatus moves only along sending -> sent, sent -> read,
\* sending -> failed and failed -> sending (a retry, which is a new send):
\* an entry of an online send is in state sending only while its send is in
\* flight, and once the send has concluded (sent or failed) the entry is
\* not seen as sending again.
C22_SendingInFlight ==
  \A i \in 1..Len(messages) :
    (messages[i].id[1] = "temp" /\ messages[i].localStatus = "sending") =>
      \E p \in Procs :
        /\ Running(p)
        /\ procs[p].op \in SendOps
        /\ procs[p].tempId = messages[i].id

\* C23: once the recipient has marked a message of Me as read, the entry of
\* that message in Me's window comes to status read: when every event has
\* been handled and nothing is in flight on Me's client, each entry of a
\* message the peer has read is shown as read.
C23_ReadPromoted ==
  Quiescent =>
    \A i \in 1..Len(msgs), j \in 1..Len(messages) :
      (/\ msgs[i].from_user = Me
       /\ msgs[i].read_at # Null
       /\ messages[j].id = msgs[i].id) => Status(messages[j]) = "read"

\* C24: an entry of the window with localStatus failed or sending stays in
\* the window with its content in every step, unless the step replaces it
\* by its server record or is the removal that ends retryFailedMessage.
C24_LocalKept ==
  [][\A i \in 1..Len(messages) :
       messages[i].localStatus \in {"failed", "sending"} =>
         \/ \E j \in 1..Len(messages') :
              /\ messages'[j].id = messages[i].id
              /\ messages'[j].content = messages[i].content
         \/ \E p \in Procs :
              /\ procs[p].op \in SendOps
              /\ procs[p].pc = "sent"
              /\ procs[p].tempId = messages[i].id
              /\ procs'[p].pc = "idle"
         \/ \E p \in Procs :
              /\ procs[p].op = "retry"
              /\ procs[p].retryOf = messages[i].id
              /\ procs'[p].pc = "idle"]_vars

\* C25: every entry of the offline queue is sent at most once, also when
\* the drains of the connectivity listener and of initializeStore overlap.
C25_DeliveredOnce ==
  \A i \in 1..Len(delivered), j \in 1..Len(delivered) :
    i # j => delivered[i] # delivered[j]

\* C26: when a drain finishes, every entry that was in the offline queue is
\* still in the queue or has been sent.
C26_NoQueuedLost ==
  [][\A p \in Procs :
       (/\ procs[p].op \in DrainOps
        /\ procs[p].pc = "drain"
        /\ procs'[p].pc = "idle") =>
         \A i \in 1..Len(queue) :
           \/ \E j \in 1..Len(queue') : queue'[j] = queue[i]
           \/ \E j \in 1..Len(delivered') : delivered'[j] = queue[i]]_vars

\* C27: while the remote request of a sendMessage is in progress or has
\* been answered, the window holds the message's optimistic entry.
C27_AppendBeforeSend ==
  \A p \in Procs :
    (procs[p].op \in SendOps /\ procs[p].pc \in {"insert", "sent"}) =>
      WithId(procs[p].tempId) # {}

\* C29: a page fetch that a later loadMessages(refresh = true) has
\* overtaken (it started before the refresh and completes after it) leaves
\* the window, currentPage and hasMoreMessages as the refresh set them.
C29_StaleFetchIgnored ==
  [][\A p \in Procs :
       (/\ procs[p].op \in {"load", "more"}
        /\ procs[p].pc = "apply"
        /\ procs[p].overtaken = "applied"
        /\ procs'[p].pc = "idle") =>
         /\ messages' = messages
         /\ paging'.currentPage = paging.currentPage
         /\ paging'.hasMoreMessages = paging.hasMoreMessages]_vars

\* C30: loadMoreMessages starts a fetch only if no message load is in
\* flight and hasMoreMessages is true; otherwise it is a no-op.
C30_LoadMoreGuarded ==
  [][\A p \in Procs :
       (~Running(p) /\ procs'[p].op = "more" /\ procs'[p].pc = "fetch") =>
         /\ paging.hasMoreMessages
         /\ \A q \in Procs :
              ~(Running(q) /\ procs[q].op \in LoadOps \cup {"more"})]_vars

\* the ids of the server records in a list of messages, in order
SrvIds(w) ==
  LET r == SelectSeq(w, LAMBDA m : m.id[1] = "srv")
  IN [i \in 1..Len(r) |-> r[i].id]

\* C31: when initializeStore found a non-empty cache, the window after its
\* loadMessages has applied the fetched page holds, as server records, the
\* rows of that page, and no id twice.
C31_CacheReconciled ==
  [][\A p \in Procs :
       (/\ procs[p].op = "init"
        /\ procs[p].pc = "apply"
        /\ procs'[p].pc # "apply"
        /\ Len(procs[p].w0) > 0) =>
         /\ SrvIds(messages') = SrvIds(procs[p].data)
         /\ \A i \in 1..Len(messages'), j \in 1..Len(messages') :
              i # j => messages'[i].id # messages'[j].id]_vars

\* C32: the window holds at most the 200 most recent messages after every
\* operation that adds to it.
C32_WindowCapped == Len(messages) <= WindowLimit

\* two lists of messages that differ at most in read_at
SameButRead(w, v) ==
  /\ Len(w) = Len(v)
  /\ \A i \in 1..Len(w) : [w[i] EXCEPT !.read_at = Null] =
                            [v[i] EXCEPT !.read_at = Null]

\* C33: loadMessages(refresh = true) fetches page 0, replaces the window by
\* the fetched page and sets currentPage to 0; loadMessages(refresh =
\* false) appends the fetched page after the window (of which the last 200
\* are kept); hasMoreMessages becomes true exactly when the page holds 20
\* messages; a failed fetch leaves window, currentPage and hasMoreMessages.
C33_LoadMessages ==
  [][\A p \in Procs :
       LET rec == procs[p] IN
       rec.op = "load" =>
         /\ (rec.pc = "fetch" /\ procs'[p].pc = "apply" /\ rec.refresh) =>
              procs'[p].data =
                getMessageHistory(Me, rec.to, 0, messagesPerPage)
         /\ (rec.pc = "apply" /\ procs'[p].pc = "idle") =>
              /\ SameButRead(messages',
                   SliceLast(IF rec.refresh THEN rec.data
                             ELSE messages \o rec.data, WindowLimit))
              /\ rec.refresh => paging'.currentPage = 0
              /\ paging'.hasMoreMessages = (Len(rec.data) = messagesPerPage)
         /\ (rec.pc = "fetch" /\ procs'[p].pc = "idle") =>
              /\ messages' = messages
              /\ paging'.currentPage = paging.currentPage
              /\ paging'.hasMoreMessages = paging.hasMoreMessages]_vars

\* a refresh that ran beside another load has put a full page of 20 in the
\* window
C33_RefreshedFullPage ==
  /\ ret.op = "load"
  /\ ret.pc = "returned"
  /\ ret.err = "ok"
  /\ ret.refresh
  /\ ~ret.solo
  /\ Len(ret.data) = messagesPerPage
  /\ SameButRead(messages, ret.data)
  /\ paging.hasMoreMessages
  /\ paging.currentPage = 0

\* C28: the merge of an inbound message into the window is idempotent:
\* handling the event of a message whose entry the window already holds
\* leaves the window as it is.
C28_InboundIdempotent ==
  [][\A p \in Procs, i \in 1..Len(messages) :
       (/\ ~Running(p)
        /\ procs'[p].op = "mark"
        /\ procs'[p].pc = "markUpdate"
        /\ procs'[p].sid = messages[i].id) => messages' = messages]_vars


\* C34: when no operation or handler of the connection store is running and
\* no event of the user's row is waiting, connectedUser is non-null only if
\* connectionStatus is connected.
C34_PeerOnlyWhenConnected ==
  (Quiescent /\ events = <<>> /\ session.connectedUser # NoUser) =>
    session.connectionStatus = CONNECTED

\* C35: once every event of the user's row has been handled, in whatever
\* order and however often it was delivered, and nothing is running, the
\* local connectionStatus is the one of the user's row in the store.
C35_StatusFromStore ==
  (Quiescent /\ events = <<>>) =>
    session.connectionStatus = users[Me].connection_status

\* C36: when acceptRequest or rejectRequest has returned success to Me and
\* neither an event nor a handler is left that could still change the local
\* state, connectionStatus and connectedUser are those of the store.
C36_LocalAfterDecision ==
  (/\ ret.op \in {"accept", "reject"}
   /\ ret.pc = "returned"
   /\ ret.err = "ok"
   /\ ret.caller = Me
   /\ Quiescent
   /\ events = <<>>) =>
    /\ session.connectionStatus = users[Me].connection_status
    /\ session.connectedUser = users[Me].connected_to

\* C37: in the step in which sendMessage issues the insert of the message or
\* puts it in the offline queue, isTyping is false and no typing timer is
\* left to fire, whether the client is online or offline.
C37_TypingClearedOnSend ==
  [][((\E p \in Procs : /\ procs[p].op \in SendOps
                         /\ procs[p].pc = "typing"
                         /\ procs'[p].pc = "insert")
      \/ Len(queue') > Len(queue)) =>
       (~typing'.isTyping /\ ~typing'.armed)]_vars

\* C38: while isTyping is true the timer that sets it back to false is
\* still going to fire.
C38_TypingExpires == typing.isTyping => typing.armed

\* C39: a request from A to B made when both are disconnected succeeds also
\* when an earlier request from A to B was rejected, or was accepted and the
\* pair has disconnected since.
C39_RepeatSend ==
  (/\ ret.op = "send"
   /\ ret.pc = "returned"
   /\ ret.caller = ret.from
   /\ ret.pre
   /\ ret.solo
   /\ <<ret.from, ret.to>> \in SendPairs
   /\ requests[<<ret.from, ret.to>>] \in {REJECTED, ACCEPTED}) =>
    ret.err = "ok"

\* C40: no step of an acceptConnectionRequest(R) called by a user other than
\* the recipient of R makes any user connected; stated for the calls whose
\* statements pass through the row level security policies, the only place
\* where the caller is looked at.
C40_OnlyRecipientConnects ==
  [][\A p \in Procs :
       (/\ procs[p].op = "accept"
        /\ procs[p].rls
        /\ procs[p].caller # to_user(procs[p].rid)
        /\ procs'[p] # procs[p]) =>
         \A u \in Users :
           users'[u].connection_status = CONNECTED =>
             users[u].connection_status = CONNECTED]_vars

TypeOK ==
  /\ users \in [Users -> [connection_status : {DISCONNECTED, PENDING, CONNECTED},
                          connected_to : Users \cup {NoUser}]]
  /\ requests \in [SendPairs -> {NoRow, PENDING, ACCEPTED, REJECTED}]
  /\ faults \in 0..MaxFaults
  /\ tried \in Scenarios
  /\ singleFlight \in BOOLEAN
  /\ Len(msgs) <= messagesPerPage + 1 + 2 * MaxMessages
  /\ isOnline \in BOOLEAN
  /\ Len(queue) <= MaxMessages
  /\ clock \in Nat \ {0}
  /\ pushes = {}
  /\ Len(delivered) <= 2 * MaxMessages
  /\ paging.currentPage \in Nat
  /\ Len(messages) <= WindowLimit
====
